---- MODULE Spec2Model ----
(***************************************************************************)
(* huetils: room_control (one scheduled run of the room controller against *)
(* a Hue bridge), utils (illumination, interpolate), thermometer (one run  *)
(* of the thermometer against the bridge) and hue, the older room          *)
(* controller.                                                             *)
(*                                                                         *)
(* Instants are whole minutes since 00:00 UTC of the day the solar events  *)
(* belong to.  A Python float is an IEEE 754 double and its arithmetic     *)
(* rounds as Python's does; int() is truncation toward zero.               *)
(*                                                                         *)
(* The bridge is a store: a write of on or bri, with or without a          *)
(* transition time, sets the value that light.on and light.brightness      *)
(* return from then on (for a transition, the value it ends at).  The      *)
(* colour temperature is only ever written, never read: it is kept in the  *)
(* record of the run's writes, not in the light.                           *)
(***************************************************************************)
EXTENDS Integers, Sequences, FiniteSets, TLC

\* ------------------------------------------------------------- bounds

\* Lights known to the bridge (light ids 1..NumLights; a light's name is its id).
NumLights == 2
\* A light's brightness before the first run is in 0..MaxInitBri, or full.
MaxInitBri == 2
\* SpecIllum: the five instants (now and the solar events) range over 0..MaxT.
MaxT == 5
\* SpecGate: the bridge reports up to NumSensors sensors.
NumSensors == 2
\* SpecThermo: temperatures range from TempMargin below -10 to TempMargin above 40.
TempMargin == 5

\* -------------------------------------------------- program constants

\* timedelta(minutes=60) in sensor_pressed_not_long_ago.
RecentMinutes == 60
\* timedelta(minutes=30): the cloudy sky's shift of sunset and dusk.
CloudyShift == 30
\* poweron_lights: int(interpolate(illum, 255, 0)).
FullBri == 255
\* redshift: coldest and hottest, in mireds.
coldest == 153
hottest == 500
\* datetime.hour: minutes in an hour, hours in a day.
MinutesPerHour == 60
HoursPerDay == 24

\* --------------------------------------------------------------- floats

\* A Python float is an IEEE 754 double: a sign, a significand of MantBits bits
\* and a power of two; every operation rounds its exact result to the nearest
\* double, ties to the even significand.  Significands are kept as sequences of
\* limbs of LimbBits bits, least significant first and without leading zeros,
\* so that no intermediate number leaves the model checker's integers.  The
\* arithmetic is written as functions, whose arguments are values.
MantBits == 53
LimbBits == 14
Limb == 2^LimbBits
\* Limbs computed after the point by a division, before rounding.
FracLimbs == 6

Big == Seq(Nat)

BigTrim[x \in Big] ==
    IF x = <<>> THEN x
    ELSE IF x[Len(x)] = 0 THEN BigTrim[SubSeq(x, 1, Len(x) - 1)]
    ELSE x

BigOfNat[n \in Nat] == IF n = 0 THEN <<>> ELSE <<n % Limb>> \o BigOfNat[n \div Limb]

BigToNat[x \in Big] == IF x = <<>> THEN 0 ELSE x[1] + Limb * BigToNat[Tail(x)]

BitLen[n \in Nat] == IF n = 0 THEN 0 ELSE 1 + BitLen[n \div 2]

BigBitLen[x \in Big] ==
    IF x = <<>> THEN 0 ELSE LimbBits * (Len(x) - 1) + BitLen[x[Len(x)]]

BigZeros[k \in Nat] == IF k = 0 THEN <<>> ELSE <<0>> \o BigZeros[k - 1]

\* x + y + c.
BigAddCarry[x \in Big, y \in Big, c \in Nat] ==
    IF x = <<>> /\ y = <<>> THEN (IF c = 0 THEN <<>> ELSE <<c>>)
    ELSE LET a == IF x = <<>> THEN 0 ELSE x[1]
             b == IF y = <<>> THEN 0 ELSE y[1]
         IN  <<(a + b + c) % Limb>>
                \o BigAddCarry[IF x = <<>> THEN x ELSE Tail(x),
                               IF y = <<>> THEN y ELSE Tail(y),
                               (a + b + c) \div Limb]

BigAdd[x \in Big, y \in Big] == BigAddCarry[x, y, 0]

\* x - y - c for x >= y + c.
BigSubBorrow[x \in Big, y \in Big, c \in Nat] ==
    IF x = <<>> THEN <<>>
    ELSE LET d == x[1] - (IF y = <<>> THEN 0 ELSE y[1]) - c
         IN  <<IF d < 0 THEN d + Limb ELSE d>>
                \o BigSubBorrow[Tail(x), IF y = <<>> THEN y ELSE Tail(y),
                                IF d < 0 THEN 1 ELSE 0]

BigSub[x \in Big, y \in Big] == BigTrim[BigSubBorrow[x, y, 0]]

\* x * n + c for a natural n of at most 16 bits.
BigMulCarry[x \in Big, n \in Nat, c \in Nat] ==
    IF x = <<>> THEN BigOfNat[c]
    ELSE <<(x[1] * n + c) % Limb>> \o BigMulCarry[Tail(x), n, (x[1] * n + c) \div Limb]

BigMulSmall[x \in Big, n \in Nat] == IF n = 0 THEN <<>> ELSE BigMulCarry[x, n, 0]

\* The limbs 1..i of x with remainder r carried in from above, divided by d.
BigDivFrom[x \in Big, d \in Nat, i \in Nat, r \in Nat] ==
    IF i = 0 THEN <<>>
    ELSE BigDivFrom[x, d, i - 1, (r * Limb + x[i]) % d] \o <<(r * Limb + x[i]) \div d>>

\* x * 2^k and floor(x / 2^k).
BigShl[x \in Big, k \in Nat] ==
    IF x = <<>> THEN x
    ELSE BigZeros[k \div LimbBits] \o BigMulSmall[x, 2^(k % LimbBits)]

BigShr[x \in Big, k \in Nat] ==
    IF k \div LimbBits >= Len(x) THEN <<>>
    ELSE LET y == SubSeq(x, (k \div LimbBits) + 1, Len(x))
         IN  BigTrim[BigDivFrom[y, 2^(k % LimbBits), Len(y), 0]]

\* Bit i of x, and whether the bits below bit k are all 0.
BigBit[x \in Big, i \in Nat] ==
    IF (i \div LimbBits) + 1 > Len(x) THEN 0
    ELSE (x[(i \div LimbBits) + 1] \div 2^(i % LimbBits)) % 2

BigLowZero[x \in Big, k \in Nat] ==
    /\ \A j \in 1..Len(x) : j <= k \div LimbBits => x[j] = 0
    /\ (k \div LimbBits) + 1 <= Len(x) => x[(k \div LimbBits) + 1] % 2^(k % LimbBits) = 0

BigLt[x \in Big, y \in Big] ==
    \/ Len(x) < Len(y)
    \/ /\ Len(x) = Len(y)
       /\ \E i \in 1..Len(x) : x[i] < y[i] /\ \A j \in (i + 1)..Len(x) : x[j] = y[j]

\* The double sign * m * 2^e; m has MantBits bits, or is empty for 0.0.
Float(sign, m, e) == [raised |-> FALSE, sign |-> sign, m |-> m, e |-> e]

FloatZero == Float(0, <<>>, 0)

\* What a division by zero leaves in place of a float: the exception raised.
ZeroDivisionError == [raised |-> TRUE, sign |-> 0, m |-> <<>>, e |-> 0]

\* The floats, and what stands for the exception.
Floats == [raised : BOOLEAN, sign : {-1, 0, 1}, m : Big, e : Int]

\* sign * x * 2^e rounded to the nearest double, ties to even.
FloatRound[sign \in {-1, 0, 1}, x \in Big, e \in Int] ==
    IF x = <<>> \/ sign = 0 THEN FloatZero
    ELSE IF BigBitLen[x] <= MantBits
         THEN Float(sign, BigShl[x, MantBits - BigBitLen[x]], e - (MantBits - BigBitLen[x]))
    ELSE LET s == BigBitLen[x] - MantBits
             q == BigShr[x, s]
             up == BigBit[x, s - 1] = 1 /\ (~BigLowZero[x, s - 1] \/ q[1] % 2 = 1)
             r == IF up THEN BigAdd[q, <<1>>] ELSE q
         IN  IF BigBitLen[r] > MantBits THEN Float(sign, BigShr[r, 1], e + s + 1)
             ELSE Float(sign, r, e + s)

Sign[n \in Int] == IF n > 0 THEN 1 ELSE IF n < 0 THEN -1 ELSE 0

Abs[n \in Int] == IF n < 0 THEN -n ELSE n

\* float(n) for an int n.
FloatOfInt[n \in Int] == FloatRound[Sign[n], BigOfNat[Abs[n]], 0]

\* The k limbs of r / b after the point, for r < b, and what is left of r.
FracDigits[r \in Nat, b \in Nat, k \in Nat] ==
    IF k = 0 THEN <<>>
    ELSE FracDigits[(r * Limb) % b, b, k - 1] \o <<(r * Limb) \div b>>

FracRem[r \in Nat, b \in Nat, k \in Nat] ==
    IF k = 0 THEN r ELSE FracRem[(r * Limb) % b, b, k - 1]

\* a / b for ints a and b (true division; equally timedelta / timedelta, which
\* divides two counts of microseconds): the quotient's limbs down to FracLimbs
\* after the point, the last bit set when the division is not exact, rounded.
FloatDiv[a \in Int, b \in Int] ==
    IF b = 0 THEN ZeroDivisionError
    ELSE LET digits == FracDigits[Abs[a] % Abs[b], Abs[b], FracLimbs]
                          \o BigOfNat[Abs[a] \div Abs[b]]
             inexact == FracRem[Abs[a] % Abs[b], Abs[b], FracLimbs] # 0
             sticky == IF inexact /\ digits[1] % 2 = 0
                       THEN [digits EXCEPT ![1] = digits[1] + 1] ELSE digits
         IN  FloatRound[Sign[a] * Sign[b], BigTrim[sticky], -(FracLimbs * LimbBits)]

\* x + y, x - y for floats.
FloatAdd[x \in Floats, y \in Floats] ==
    IF x.raised \/ y.raised THEN ZeroDivisionError
    ELSE IF x.sign = 0 THEN y
    ELSE IF y.sign = 0 THEN x
    ELSE LET e == IF x.e < y.e THEN x.e ELSE y.e
             a == BigShl[x.m, x.e - e]
             b == BigShl[y.m, y.e - e]
         IN  IF x.sign = y.sign THEN FloatRound[x.sign, BigAdd[a, b], e]
             ELSE IF a = b THEN FloatZero
             ELSE IF BigLt[b, a] THEN FloatRound[x.sign, BigSub[a, b], e]
             ELSE FloatRound[y.sign, BigSub[b, a], e]

FloatSub[x \in Floats, y \in Floats] == FloatAdd[x, [y EXCEPT !.sign = -y.sign]]

\* x * n for a float x and an int n of at most 16 bits.
FloatMulInt[x \in Floats, n \in Int] ==
    IF x.raised THEN ZeroDivisionError
    ELSE FloatRound[x.sign * Sign[n], BigMulSmall[x.m, Abs[n]], x.e]

\* int(x): truncation toward zero. An exception raised while x was computed
\* is not caught: it stands for the result.
FloatInt[x \in Floats] ==
    IF x.raised THEN ZeroDivisionError
    ELSE x.sign * BigToNat[IF x.e >= 0 THEN BigShl[x.m, x.e] ELSE BigShr[x.m, -x.e]]

\* x == k, for a float x and an int k.
FloatIsInt[x \in Floats, k \in Int] == x = FloatOfInt[k]

\* x < y and x <= y, for floats.
FloatLt[x \in Floats, y \in Floats] ==
    IF x.sign # y.sign THEN x.sign < y.sign
    ELSE IF x.sign = 0 THEN FALSE
    ELSE IF x.sign = 1 THEN x.e < y.e \/ (x.e = y.e /\ BigLt[x.m, y.m])
    ELSE y.e < x.e \/ (x.e = y.e /\ BigLt[y.m, x.m])

FloatLe[x \in Floats, y \in Floats] == x = y \/ FloatLt[x, y]

\* A number as the bridge is handed it: Python does not tell 255.0 from 255,
\* so a float that is whole is written as the int it equals.
Number[x \in Floats] ==
    IF x.raised THEN ZeroDivisionError
    ELSE IF FloatOfInt[FloatInt[x]] = x THEN FloatInt[x] ELSE x

\* ---------------------------------------------------------------- utils

\* The dict astral.sun.sun returns, as far as it is read.
Sun(dawn, sunrise, sunset, dusk) ==
    [dawn |-> dawn, sunrise |-> sunrise, sunset |-> sunset, dusk |-> dusk]

\* utils.illumination, mutated: the evening ramp runs upward, as
\* get_transition_progress of the older hue.py does.
illumination_progress(now, sun) ==
    IF now < sun.dawn \/ now > sun.dusk THEN FloatZero
    ELSE IF now < sun.sunrise THEN FloatDiv[now - sun.dawn, sun.sunrise - sun.dawn]
    ELSE IF now > sun.sunset THEN FloatDiv[now - sun.sunset, sun.dusk - sun.sunset]
    ELSE FloatOfInt[1]

\* utils.illumination, mutated: the evening test reads the wrong key (sunrise).
illumination_wrong_key(now, sun) ==
    IF now < sun.dawn \/ now > sun.dusk THEN FloatZero
    ELSE IF now < sun.sunrise THEN FloatDiv[now - sun.dawn, sun.sunrise - sun.dawn]
    ELSE IF now > sun.sunrise
         THEN FloatSub[FloatOfInt[1], FloatDiv[now - sun.sunset, sun.dusk - sun.sunset]]
    ELSE FloatOfInt[1]

\* utils.illumination, mutated: the night test forgets the instants after dusk.
illumination_no_dusk(now, sun) ==
    IF now < sun.dawn THEN FloatZero
    ELSE IF now < sun.sunrise THEN FloatDiv[now - sun.dawn, sun.sunrise - sun.dawn]
    ELSE IF now > sun.sunset
         THEN FloatSub[FloatOfInt[1], FloatDiv[now - sun.sunset, sun.dusk - sun.sunset]]
    ELSE FloatOfInt[1]

\* utils.illumination, mutated: the ramp tests include their end points
\* (now <= sunrise, now >= sunset), so that a zero-length twilight is divided by.
illumination_closed_ramps(now, sun) ==
    IF now < sun.dawn \/ now > sun.dusk THEN FloatZero
    ELSE IF now <= sun.sunrise THEN FloatDiv[now - sun.dawn, sun.sunrise - sun.dawn]
    ELSE IF now >= sun.sunset
         THEN FloatSub[FloatOfInt[1], FloatDiv[now - sun.sunset, sun.dusk - sun.sunset]]
    ELSE FloatOfInt[1]

\* utils.illumination(now, sun): 0.0, 1, or a float on a ramp.  A division by
\* timedelta(0) raises ZeroDivisionError.
illumination(now, sun) ==
    IF now < sun.dawn \/ now > sun.dusk THEN FloatZero
    ELSE IF now < sun.sunrise THEN FloatDiv[now - sun.dawn, sun.sunrise - sun.dawn]
    ELSE IF now > sun.sunset
         THEN FloatSub[FloatOfInt[1], FloatDiv[now - sun.sunset, sun.dusk - sun.sunset]]
    ELSE FloatOfInt[1]

\* utils.interpolate(alpha, min_temp, max_temp) = (1 - alpha) * min_temp + alpha * max_temp.
interpolate(alpha, min_temp, max_temp) ==
    FloatAdd[FloatMulInt[FloatSub[FloatOfInt[1], alpha], min_temp],
             FloatMulInt[alpha, max_temp]]

\* ---------------------------------------------------------- thermometer

\* thermometer.between(mini, maxi, color_start, color_end, current):
\* int(color_start + orange * (mini - current) / irange), and ZeroDivisionError
\* when mini == maxi, the division being by irange == 0.
between(mini, maxi, color_start, color_end, current) ==
    LET irange == Abs[maxi - mini]
        orange == color_start - color_end
    IN  FloatInt[FloatAdd[FloatOfInt[color_start],
                          FloatDiv[orange * (mini - current), irange]]]

\* The calibration boundaries of degree_c_to_hue_color.
Boundaries == {-10, 0, 10, 30, 40}

\* The piece of degree_c_to_hue_color that applies to temp: 0 below -10, then one
\* per `if temp < b`, 5 from 40 up.
segment_of(temp) ==
    IF temp < -10 THEN 0
    ELSE IF temp < 0 THEN 1
    ELSE IF temp < 10 THEN 2
    ELSE IF temp < 30 THEN 3
    ELSE IF temp < 40 THEN 4
    ELSE 5

\* hue_segment, mutated: yellow mistyped in the third piece (12570 for 12750).
hue_segment_typo(k, temp) ==
    CASE k = 0 -> 46920
      [] k = 1 -> between(-10, 0, 46920, 25500, temp)
      [] k = 2 -> between(0, 10, 25500, 12570, temp)
      [] k = 3 -> between(10, 30, 12750, 0, temp)
      [] k = 4 -> between(30, 40, 65280, 56100, temp)
      [] OTHER -> 56100

\* The return expression of piece k of degree_c_to_hue_color, at temp.
hue_segment(k, temp) ==
    CASE k = 0 -> 46920
      [] k = 1 -> between(-10, 0, 46920, 25500, temp)
      [] k = 2 -> between(0, 10, 25500, 12750, temp)
      [] k = 3 -> between(10, 30, 12750, 0, temp)
      [] k = 4 -> between(30, 40, 65280, 56100, temp)
      [] OTHER -> 56100

\* thermometer.degree_c_to_hue_color(temp).
degree_c_to_hue_color(temp) == hue_segment(segment_of(temp), temp)

\* --------------------------------------------------------- room_control

\* One write to the bridge: light.on = v (1 for True, 0 for False),
\* light.brightness = v, or bridge.set_light(light_id, attr, v, transitiontime).
Write(id, attr, value) == [light |-> id, attr |-> attr, value |-> value]

\* What a function did to the bridge: the lights as it leaves them and the
\* writes it issued.
Effect(ls, ws) == [lights |-> ls, writes |-> ws]

\* datetime.hour of an instant.
hour(now) == (now \div MinutesPerHour) % HoursPerDay

\* sensor_pressed_not_long_ago, the loop from sensor i on; a run that falls off
\* the end of the loop returns None, which main reads as false.
RECURSIVE sensor_scan(_, _, _, _)
sensor_scan(sensors, sensors_to_watch, now, i) ==
    IF i > Len(sensors) THEN FALSE
    ELSE IF sensors[i].name \notin sensors_to_watch
         THEN sensor_scan(sensors, sensors_to_watch, now, i + 1)
    ELSE IF now - sensors[i].lastupdated < RecentMinutes THEN TRUE
    ELSE sensor_scan(sensors, sensors_to_watch, now, i + 1)

\* sensor_pressed_not_long_ago, mutated: the first watched sensor decides.
sensor_pressed_first_only(sensors, sensors_to_watch, now) ==
    \E i \in 1..Len(sensors) :
        /\ sensors[i].name \in sensors_to_watch
        /\ \A j \in 1..(i - 1) : sensors[j].name \notin sensors_to_watch
        /\ now - sensors[i].lastupdated < RecentMinutes

\* room_control.sensor_pressed_not_long_ago(bridge, sensors_to_watch).
sensor_pressed_not_long_ago(sensors, sensors_to_watch, now) ==
    sensor_scan(sensors, sensors_to_watch, now, 1)

\* One light's turn in poweroff_lights, mutated: the brightness <= 1 test is
\* lost, a light that is on is dimmed again and never switched off.
poweroff_light_dim_only(id, light) ==
    IF ~light.on THEN Effect(light, {})
    ELSE Effect([light EXCEPT !.bri = 0], {Write(id, "bri", 0)})

\* poweroff_lights, one light, mutated: every light that is on is switched off
\* at once.
poweroff_light_at_once(id, light) ==
    IF ~light.on THEN Effect(light, {})
    ELSE Effect([light EXCEPT !.on = FALSE], {Write(id, "on", 0)})

\* poweroff_lights, the loop body for one light.
poweroff_light(id, light) ==
    IF ~light.on THEN Effect(light, {})
    ELSE IF light.bri <= 1
         THEN Effect([light EXCEPT !.on = FALSE], {Write(id, "on", 0)})
    ELSE Effect([light EXCEPT !.bri = 0], {Write(id, "bri", 0)})

\* room_control.poweroff_lights(bridge, lights).
poweroff_lights(ls, controlled) ==
    Effect([id \in DOMAIN ls |->
               IF id \in controlled THEN poweroff_light(id, ls[id]).lights ELSE ls[id]],
           UNION {poweroff_light(id, ls[id]).writes : id \in controlled})

\* poweron_lights, the loop body for one light.
poweron_light(id, light, target) ==
    Effect([on |-> TRUE, bri |-> target],
           (IF ~light.on THEN {Write(id, "on", 1), Write(id, "bri", 0)} ELSE {})
               \cup {Write(id, "bri", target)})

\* room_control.poweron_lights(bridge, lights, illum).
poweron_lights(ls, controlled, illum) ==
    LET target == FloatInt[interpolate(illum, FullBri, 0)]
    IN  Effect([id \in DOMAIN ls |->
                   IF id \in controlled THEN poweron_light(id, ls[id], target).lights
                   ELSE ls[id]],
               UNION {poweron_light(id, ls[id], target).writes : id \in controlled})

\* set_lights_brightness, mutated: the only_switchoff test is missing.
set_lights_brightness_always_on(ls, controlled, now, sun, only_switchoff) ==
    LET illum == illumination(now, sun)
    IN  IF FloatIsInt[illum, 1] THEN poweroff_lights(ls, controlled)
        ELSE IF 0 < hour(now) /\ hour(now) < 7 THEN poweroff_lights(ls, controlled)
        ELSE poweron_lights(ls, controlled, illum)

\* room_control.set_lights_brightness(bridge, now, lights, sun, only_switchoff).
set_lights_brightness(ls, controlled, now, sun, only_switchoff) ==
    LET illum == illumination(now, sun)
    IN  IF FloatIsInt[illum, 1] THEN poweroff_lights(ls, controlled)
        ELSE IF 0 < hour(now) /\ hour(now) < 7 THEN poweroff_lights(ls, controlled)
        ELSE IF only_switchoff THEN Effect(ls, {})
        ELSE poweron_lights(ls, controlled, illum)

\* room_control.transition_to_ct(bridge, lights, ct): the writes.
transition_to_ct(controlled, ct) == {Write(id, "ct", ct) : id \in controlled}

\* room_control.redshift: the colour temperature it hands to transition_to_ct.
redshift_ct(now, sun) ==
    LET illum == illumination(now, sun)
    IN  IF FloatIsInt[illum, 1] THEN coldest
        ELSE IF FloatIsInt[illum, 0] THEN hottest
        ELSE FloatInt[interpolate(illum, hottest, coldest)]

\* room_control.redshift(bridge, now, lights, sun): the writes.
redshift(controlled, now, sun) == transition_to_ct(controlled, redshift_ct(now, sun))

\* main: under a cloudy sky, sunset and dusk come 30 minutes sooner.
cloudy_sun(sun, is_cloudy) ==
    IF is_cloudy
    THEN [sun EXCEPT !.sunset = sun.sunset - CloudyShift, !.dusk = sun.dusk - CloudyShift]
    ELSE sun

\* ------------------------------------------------------- thermometer.main

\* The start of thermometer.main on light id: the light is switched on if it
\* is off and its saturation is set, before the weather is asked for.
thermometer_on_sat(ls, id) ==
    Effect([ls EXCEPT ![id].on = TRUE],
           (IF ~ls[id].on THEN {Write(id, "on", 1)} ELSE {})
              \cup {Write(id, "sat", 255)})

\* The end of thermometer.main on light id, for a weather report of degree
\* Celsius: hue and bri are written; bri is
\* interpolate(illumination(now, sun), 0, 255) as it comes, a float in twilight.
thermometer_hue_bri(ls, id, degree, now, sun) ==
    LET bri == Number[interpolate(illumination(now, sun), 0, 255)]
    IN  Effect([ls EXCEPT ![id].bri = bri],
               {Write(id, "hue", degree_c_to_hue_color(degree)),
                Write(id, "bri", bri)})

\* What ends thermometer.main at the weather report: run(..., check=True,
\* encoding="UTF-8") raises FileNotFoundError when there is no `weather` to
\* start, CalledProcessError when it exits with a non-zero status and
\* UnicodeDecodeError when it printed bytes that are not UTF-8;
\* meteo.split()[1] raises IndexError when it printed less than two words, int
\* ValueError when the second word is no number.
WeatherErrors ==
    {"FileNotFoundError", "CalledProcessError", "UnicodeDecodeError", "IndexError", "ValueError"}

\* ------------------------------------------------------------------ hue

\* timedelta(minutes=30) in hue.sensor_pressed_not_long_ago.
HueRecentMinutes == 30
\* hue.redshift: min_temp and max_temp, in mireds.
hue_min_temp == 154
hue_max_temp == 500

\* hue.sensor_pressed_not_long_ago(bridge, sensors_to_watch): True at the first
\* watched sensor pressed less than 30 minutes ago, None without one.
hue_sensor_pressed_not_long_ago(sensors, sensors_to_watch, now) ==
    \E i \in 1..Len(sensors) :
        /\ sensors[i].name \in sensors_to_watch
        /\ now - sensors[i].lastupdated < HueRecentMinutes

\* hue.poweroff_lights, the loop body for one light.
hue_poweroff_light(id, light) ==
    IF ~light.on THEN Effect(light, {})
    ELSE IF light.bri = 0
         THEN Effect([light EXCEPT !.on = FALSE], {Write(id, "on", 0)})
    ELSE Effect([light EXCEPT !.bri = 0], {Write(id, "bri", 0)})

\* hue.poweroff_lights(bridge, lights_to_watch).
hue_poweroff_lights(ls, controlled) ==
    Effect([id \in DOMAIN ls |->
               IF id \in controlled THEN hue_poweroff_light(id, ls[id]).lights ELSE ls[id]],
           UNION {hue_poweroff_light(id, ls[id]).writes : id \in controlled})

\* hue.poweron_lights, the loop body for one light: a light that is on at full
\* brightness is left alone, one that is off is switched on at brightness 0,
\* one that is on is sent to full brightness.
hue_poweron_light(id, light) ==
    IF light.bri = 255 /\ light.on THEN Effect(light, {})
    ELSE IF ~light.on
         THEN Effect([on |-> TRUE, bri |-> 0], {Write(id, "on", 1), Write(id, "bri", 0)})
    ELSE Effect([light EXCEPT !.bri = 255], {Write(id, "bri", 255)})

\* hue.poweron_lights(bridge, lights_to_watch).
hue_poweron_lights(ls, controlled) ==
    Effect([id \in DOMAIN ls |->
               IF id \in controlled THEN hue_poweron_light(id, ls[id]).lights ELSE ls[id]],
           UNION {hue_poweron_light(id, ls[id]).writes : id \in controlled})

\* hue.set_lights_brightness(bridge, now, lights, sun): by day the lights are
\* powered off; in the curfew hours they are powered off and, there being no
\* return, powered on after that; otherwise they are powered on.
hue_set_lights_brightness(ls, controlled, now, sun) ==
    IF now > sun.sunrise /\ now < sun.sunset THEN hue_poweroff_lights(ls, controlled)
    ELSE LET off == IF 0 < hour(now) /\ hour(now) < 7
                    THEN hue_poweroff_lights(ls, controlled) ELSE Effect(ls, {})
             on == hue_poweron_lights(off.lights, controlled)
         IN  Effect(on.lights, off.writes \cup on.writes)

\* hue.get_period_from_sun(now, sun).
get_period_from_sun(now, sun) ==
    IF now < sun.dawn \/ now > sun.dusk THEN "NIGHT"
    ELSE IF sun.sunrise < now /\ now < sun.sunset THEN "DAYTIME"
    ELSE "TRANSITION"

\* hue.get_transition_progress(now, sun).
get_transition_progress(now, sun) ==
    IF now < sun.dawn \/ now > sun.dusk THEN FloatZero
    ELSE IF now < sun.sunrise THEN FloatDiv[now - sun.dawn, sun.sunrise - sun.dawn]
    ELSE IF now > sun.sunset THEN FloatDiv[now - sun.sunset, sun.dusk - sun.sunset]
    ELSE FloatOfInt[1]

\* hue.interpolate_temp(alpha, min_temp, max_temp).
interpolate_temp(alpha, min_temp, max_temp) == interpolate(alpha, min_temp, max_temp)

\* The colour temperature hue.redshift writes: in a transition the
\* interpolation as it comes, a float.
hue_redshift_ct(now, sun) ==
    IF get_period_from_sun(now, sun) = "DAYTIME" THEN hue_min_temp
    ELSE IF get_period_from_sun(now, sun) = "NIGHT" THEN hue_max_temp
    ELSE Number[interpolate_temp(get_transition_progress(now, sun),
                                 hue_min_temp, hue_max_temp)]

\* hue.redshift(bridge, now, lights_to_watch, sun), with hue.transition_to_ct.
hue_redshift(controlled, now, sun) ==
    {Write(id, "ct", hue_redshift_ct(now, sun)) : id \in controlled}

\* hue.main past its argument parsing: nothing after a recent press of a
\* watched sensor, otherwise set_lights_brightness, then redshift.
hue_main(ls, controlled, sensors, sensors_to_watch, now, sun) ==
    IF hue_sensor_pressed_not_long_ago(sensors, sensors_to_watch, now)
    THEN Effect(ls, {})
    ELSE LET eff == hue_set_lights_brightness(ls, controlled, now, sun)
         IN  Effect(eff.lights, eff.writes \cup hue_redshift(controlled, now, sun))

\* ---------------------------------------------------------------- state

VARIABLES
    lights,     \* the bridge: light id -> [on, bri], what light.on and light.brightness read
    before,     \* the lights as the run in progress found them
    writes,     \* the writes the run in progress has issued
    pc,         \* where main is: "idle" between runs, "gate", "brightness", "redshift", "done",
                \* "check_if_cloudy" at the wait for `weather`, its exception when it failed;
                \* thermometer.main: "thermometer", "weather", "thermometer_done" or its exception
    args,       \* parse_args(): [only_switchoff, lights, sensors]
    sensors,    \* bridge.sensors: a sequence of [name, lastupdated]
    now,        \* the clock as the run last read it
    sun,        \* astral.sun.sun(...) after the cloudy shift
    pressed,    \* what sensor_pressed_not_long_ago returned
    illum,      \* SpecIllum: what illumination returned
    temp,       \* SpecThermo: the temperature read
    color       \* SpecThermo: what degree_c_to_hue_color returned

vars == <<lights, before, writes, pc, args, sensors, now, sun, pressed, illum, temp, color>>

Lights == 1..NumLights

\* The states a light may be found in before the first run.
InitLightStates == [on : BOOLEAN, bri : (0..MaxInitBri) \cup {FullBri}]

\* --lights: all the bridge's lights, or all but the last.
LightsArgs == {1..k : k \in (NumLights - 1)..NumLights}

\* The instants at which a run is started: every full hour of the day.
Times == {MinutesPerHour * h : h \in 0..(HoursPerDay - 1)}

\* Solar events of two days: a summer day of a northern town (dawn 02:00, sunrise
\* 04:00, sunset 20:00, dusk 21:00 UTC) and a winter day (07:00, 08:00, 16:00, 17:00).
SunCases == {Sun(120, 240, 1200, 1260), Sun(420, 480, 960, 1020)}

\* Minutes since the watched sensor was pressed, either side of the threshold.
Elapsed == {RecentMinutes - 1, RecentMinutes}

NoArgs == [only_switchoff |-> FALSE, lights |-> {}, sensors |-> {}]
NoSun == Sun(0, 0, 0, 0)

\* Between runs nothing of a run is kept (the script is stateless): only the
\* bridge's lights.
Idle ==
    /\ pc = "idle"
    /\ before = lights
    /\ writes = {}
    /\ args = NoArgs
    /\ sensors = <<>>
    /\ now = 0
    /\ sun = NoSun
    /\ pressed = FALSE

\* The results of the functions checked on their own are not part of a run.
Unused == illum = FloatZero /\ temp = 0 /\ color = 0

Init ==
    /\ lights \in [Lights -> InitLightStates]
    /\ Idle
    /\ Unused

\* main, mutated: no return after the sensor test.
Gate_no_return ==
    /\ pc = "gate"
    /\ pressed' = sensor_pressed_not_long_ago(sensors, args.sensors, now)
    /\ pc' = "check_if_cloudy"
    /\ UNCHANGED <<lights, before, writes, args, sensors, now, sun, illum, temp, color>>

\* main, to the sensor test: the arguments are parsed, the bridge connected,
\* and the clock and the sensors are as sensor_pressed_not_long_ago will read
\* them: a watched sensor pressed e minutes ago, an unwatched one pressed now.
StartRun ==
    /\ pc = "idle"
    /\ \E only_switchoff \in BOOLEAN, controlled \in LightsArgs, t \in Times, e \in Elapsed :
        /\ args' = [only_switchoff |-> only_switchoff, lights |-> controlled,
                    sensors |-> {"Salon"}]
        /\ now' = t
        /\ sensors' = << [name |-> "Cuisine", lastupdated |-> t],
                         [name |-> "Salon", lastupdated |-> t - e] >>
    /\ pc' = "gate"
    /\ UNCHANGED <<lights, before, writes, sun, pressed, illum, temp, color>>

\* main at the sensor test: a sensor pressed not long ago ends the run;
\* otherwise check_if_cloudy is called, which starts `weather` and waits for it.
Gate ==
    /\ pc = "gate"
    /\ \/ /\ sensor_pressed_not_long_ago(sensors, args.sensors, now)
          /\ pressed' = TRUE
          /\ pc' = "done"
       \/ /\ ~sensor_pressed_not_long_ago(sensors, args.sensors, now)
          /\ pressed' = FALSE
          /\ pc' = "check_if_cloudy"
    /\ UNCHANGED <<lights, before, writes, args, sensors, now, sun, illum, temp, color>>

\* What ends main in check_if_cloudy: run(..., check=True, encoding="UTF-8")
\* raises FileNotFoundError when there is no `weather` to start,
\* CalledProcessError when it exits with a non-zero status and
\* UnicodeDecodeError when it printed bytes that are not UTF-8.
CheckIfCloudyErrors == {"FileNotFoundError", "CalledProcessError", "UnicodeDecodeError"}

\* The minutes main waits for `weather`, which it runs with no timeout: less
\* than one, or an hour.
Waits == {0, MinutesPerHour}

\* main, from the return of `weather` to the call of set_lights_brightness:
\* either check_if_cloudy raises, nothing catches the exception and the run
\* ends with nothing written, or the clock is read again, after the wait, the
\* solar events of that day are computed and, under a cloudy sky, shifted.
CheckIfCloudy ==
    /\ pc = "check_if_cloudy"
    /\ \/ /\ pc' \in CheckIfCloudyErrors
          /\ UNCHANGED <<now, sun>>
       \/ /\ \E wait \in Waits :
                /\ now + wait < HoursPerDay * MinutesPerHour
                /\ now' = now + wait
          /\ \E s \in SunCases, is_cloudy \in BOOLEAN : sun' = cloudy_sun(s, is_cloudy)
          /\ pc' = "brightness"
    /\ UNCHANGED <<lights, before, writes, args, sensors, pressed, illum, temp, color>>

\* main: set_lights_brightness(bridge, now, controlled_lights, sun, only_switchoff).
SetLightsBrightness ==
    /\ pc = "brightness"
    /\ LET eff == set_lights_brightness(lights, args.lights, now, sun, args.only_switchoff)
       IN  /\ lights' = eff.lights
           /\ writes' = writes \cup eff.writes
    /\ pc' = "redshift"
    /\ UNCHANGED <<before, args, sensors, now, sun, pressed, illum, temp, color>>

\* main: redshift(bridge, now, controlled_lights, sun).
Redshift ==
    /\ pc = "redshift"
    /\ writes' = writes \cup redshift(args.lights, now, sun)
    /\ pc' = "done"
    /\ UNCHANGED <<lights, before, args, sensors, now, sun, pressed, illum, temp, color>>

\* main returns, or ends on the exception: the process exits, the bridge keeps
\* the lights.
EndRun ==
    /\ pc \in {"done"} \cup CheckIfCloudyErrors
    /\ pc' = "idle"
    /\ before' = lights
    /\ writes' = {}
    /\ args' = NoArgs
    /\ sensors' = <<>>
    /\ now' = 0
    /\ sun' = NoSun
    /\ pressed' = FALSE
    /\ UNCHANGED <<lights, illum, temp, color>>

Next == StartRun \/ Gate \/ CheckIfCloudy \/ SetLightsBrightness \/ Redshift \/ EndRun

Spec == Init /\ [][Next]_vars

\* ------------------------------------------------- power-off runs only

\* set_lights_brightness takes one of its two poweroff_lights branches at
\* instant t under the solar events s: full day, or the curfew hours.
PowersOff(t, s) == FloatIsInt[illumination(t, s), 1] \/ (0 < hour(t) /\ hour(t) < 7)

\* The instants at which the power-off runs start: 03:00, a curfew hour, in the
\* night or in the morning twilight as SunCases has it, and 12:00, full day;
\* an hour's wait for `weather` makes them 04:00 and 13:00.
PowerOffTimes == {MinutesPerHour * h : h \in {3, 12}}

\* main starts a power-off run: at one of PowerOffTimes, with no recent press
\* of a watched sensor.
StartPowerOffRun ==
    /\ StartRun
    /\ now' \in PowerOffTimes
    /\ ~sensor_pressed_not_long_ago(sensors', args'.sensors, now')

\* main past the wait for `weather` in such a run: check_if_cloudy raises and
\* the run ends, or the instant read after the wait and the sky are such that
\* set_lights_brightness powers off.
CheckIfCloudyPowerOff ==
    /\ CheckIfCloudy
    /\ pc' = "brightness" => PowersOff(now', sun')

NextPowerOff ==
    \/ StartPowerOffRun
    \/ Gate
    \/ CheckIfCloudyPowerOff
    \/ SetLightsBrightness
    \/ Redshift
    \/ EndRun

\* The script is started again and again (PERIOD is the time between two
\* starts, the scheduler's), and a started run goes on to its end, which may
\* be the failure of `weather`, every time; nothing but the runs touches the
\* lights.
SpecPowerOff == Init /\ [][NextPowerOff]_vars /\ WF_vars(NextPowerOff)

\* ------------------------------------------- the functions on their own

\* Solar events with dawn <= sunrise <= sunset <= dusk, over 0..MaxT.
OrderedSuns ==
    {Sun(a, b, c, d) : <<a, b, c, d>> \in
        {q \in (0..MaxT) \X (0..MaxT) \X (0..MaxT) \X (0..MaxT) :
            q[1] <= q[2] /\ q[2] <= q[3] /\ q[3] <= q[4]}}

\* No run of main is in progress, every light is off.
NoRun ==
    /\ lights = [id \in Lights |-> [on |-> FALSE, bri |-> 0]]
    /\ before = lights
    /\ writes = {}
    /\ pressed = FALSE

\* illumination(now, sun) is about to be called.
InitIllum ==
    /\ pc = "illumination"
    /\ now \in 0..MaxT
    /\ sun \in OrderedSuns
    /\ args = NoArgs
    /\ sensors = <<>>
    /\ NoRun
    /\ Unused

IllumApply ==
    /\ pc = "illumination"
    /\ illum' = illumination(now, sun)
    /\ pc' = "illumination_done"
    /\ UNCHANGED <<lights, before, writes, args, sensors, now, sun, pressed, temp, color>>

SpecIllum == InitIllum /\ [][IllumApply]_vars

\* redshift(bridge, now, lights, sun) is about to be called.
InitRedshift ==
    /\ pc = "redshift"
    /\ now \in 0..MaxT
    /\ sun \in OrderedSuns
    /\ \E controlled \in LightsArgs :
        args = [only_switchoff |-> FALSE, lights |-> controlled, sensors |-> {}]
    /\ sensors = <<>>
    /\ NoRun
    /\ Unused

SpecRedshift == InitRedshift /\ [][Redshift]_vars

SensorNames == {"Salon", "Cuisine"}

\* lastupdated of a sensor, around the threshold before instants 0 and 1.
LastUpdated == {-(RecentMinutes + 1), -RecentMinutes, -(RecentMinutes - 1), 0, 1}

\* sensor_pressed_not_long_ago(bridge, sensors_to_watch) is about to be called.
InitGate ==
    /\ pc = "sensor_pressed"
    /\ now \in {0, 1}
    /\ sensors \in UNION {[1..k -> [name : SensorNames, lastupdated : LastUpdated]] :
                             k \in 0..NumSensors}
    /\ \E watch \in SUBSET SensorNames :
        args = [only_switchoff |-> FALSE, lights |-> {}, sensors |-> watch]
    /\ sun = NoSun
    /\ NoRun
    /\ Unused

GateApply ==
    /\ pc = "sensor_pressed"
    /\ pressed' = sensor_pressed_not_long_ago(sensors, args.sensors, now)
    /\ pc' = "sensor_pressed_done"
    /\ UNCHANGED <<lights, before, writes, args, sensors, now, sun, illum, temp, color>>

SpecGate == InitGate /\ [][GateApply]_vars

\* The instants of the thermometer's runs: 03:00, 12:00 and 23:00.
ThermoTimes == {MinutesPerHour * h : h \in {3, 12, 23}}

\* The temperatures `weather` reports.
Temperatures == (-10 - TempMargin)..(40 + TempMargin)

\* thermometer.main is about to run on light id, which is in any state (the
\* other lights are off).
InitThermo ==
    /\ pc = "thermometer"
    /\ Unused
    /\ now \in ThermoTimes
    /\ sun \in SunCases
    /\ \E id \in Lights, state \in InitLightStates :
        /\ args = [only_switchoff |-> FALSE, lights |-> {id}, sensors |-> {}]
        /\ lights = [l \in Lights |-> IF l = id THEN state ELSE [on |-> FALSE, bri |-> 0]]
    /\ before = lights
    /\ writes = {}
    /\ sensors = <<>>
    /\ pressed = FALSE

\* thermometer.main from the bridge's connection to the start of `weather`:
\* the light is on and saturated, and stays so while `weather` runs.
ThermometerOnSat ==
    /\ pc = "thermometer"
    /\ \E id \in args.lights :
        LET eff == thermometer_on_sat(lights, id)
        IN  /\ lights' = eff.lights
            /\ writes' = eff.writes
    /\ pc' = "weather"
    /\ UNCHANGED <<before, args, sensors, now, sun, pressed, illum, temp, color>>

\* `weather` has returned a temperature: main writes its colour and the
\* brightness of the hour, and ends.
ThermometerHueBri ==
    /\ pc = "weather"
    /\ \E degree \in Temperatures :
        /\ temp' = degree
        /\ color' = degree_c_to_hue_color(degree)
        /\ \E id \in args.lights :
            LET eff == thermometer_hue_bri(lights, id, degree, now, sun)
            IN  /\ lights' = eff.lights
                /\ writes' = writes \cup eff.writes
    /\ pc' = "thermometer_done"
    /\ UNCHANGED <<before, args, sensors, now, sun, pressed, illum>>

\* `weather` failed, or printed no temperature: main ends on the exception,
\* the light left on and saturated, hue and bri not written.
WeatherFails ==
    /\ pc = "weather"
    /\ pc' \in WeatherErrors
    /\ UNCHANGED <<lights, before, writes, args, sensors, now, sun, pressed, illum, temp, color>>

NextThermo == ThermometerOnSat \/ ThermometerHueBri \/ WeatherFails

SpecThermo == InitThermo /\ [][NextThermo]_vars

\* ------------------------------------------------- the older controller

\* A watched sensor was pressed just inside or just outside hue's 30 minutes.
HueElapsed == {HueRecentMinutes - 1, HueRecentMinutes}

\* No run of hue.main has happened yet.
InitHue ==
    /\ pc = "hue"
    /\ lights \in [Lights -> InitLightStates]
    /\ before = lights
    /\ writes = {}
    /\ args = NoArgs
    /\ sensors = <<>>
    /\ now = 0
    /\ sun = NoSun
    /\ pressed = FALSE
    /\ Unused

\* One run of hue.main, from its arguments to its return: before is the state
\* of the lights it found, writes what it wrote.
HueMain ==
    /\ pc = "hue"
    /\ \E controlled \in LightsArgs, t \in Times, e \in HueElapsed, s \in SunCases :
        LET sens == << [name |-> "Cuisine", lastupdated |-> t],
                       [name |-> "Salon", lastupdated |-> t - e] >>
            eff == hue_main(lights, controlled, sens, {"Salon"}, t, s)
        IN  /\ args' = [only_switchoff |-> FALSE, lights |-> controlled,
                        sensors |-> {"Salon"}]
            /\ sensors' = sens
            /\ now' = t
            /\ sun' = s
            /\ pressed' = hue_sensor_pressed_not_long_ago(sens, {"Salon"}, t)
            /\ before' = lights
            /\ lights' = eff.lights
            /\ writes' = eff.writes
    /\ UNCHANGED <<pc, illum, temp, color>>

SpecHue == InitHue /\ [][HueMain]_vars

\* --------------------------------------------------------------- claims

\* set_lights_brightness has returned in a run that passed the sensor test.
BrightnessDone == pc \in {"redshift", "done"} /\ ~pressed

\* illumination(now, sun) == 1 for the run in progress.
IsDay == FloatIsInt[illumination(now, sun), 1]

\* The on and bri writes the run in progress issued to light id.
BriWrites(id) == {w \in writes : w.light = id /\ w.attr \in {"on", "bri"}}

\* The ct values the run in progress wrote to light id.
CtWritten(id) == {w.value : w \in {x \in writes : x.light = id /\ x.attr = "ct"}}

\* Some watched sensor was pressed less than 60 minutes before now.
RecentlyPressed ==
    \E i \in 1..Len(sensors) :
        sensors[i].name \in args.sensors /\ now - sensors[i].lastupdated < 60

\* UTC offsets of the host, in minutes: UTC, and UTC+1 (Europe/Paris in winter).
\* The offset is not part of the state: main turns every instant into UTC before
\* it reads it, so a run at instant now happens under any offset.
UtcOffsets == {0, MinutesPerHour}

\* The hour of an instant on the host's local clock.
LocalHour(t, tz) == ((t + tz) \div MinutesPerHour) % HoursPerDay

\* C1, as stated: whenever set_lights_brightness runs with illumination == 1,
\* every controlled light is powered off when it returns, whatever its state was.
C1_AllOffAfterDayRun ==
    (BrightnessDone /\ IsDay) => \A id \in args.lights : ~lights[id].on

\* C1, amended: whenever set_lights_brightness runs with illumination == 1, a
\* controlled light that was off is left alone, one that was on with brightness
\* <= 1 is switched off, and one that was on with brightness > 1 stays on and
\* gets the single write bri = 0 (the slow dim); no light is switched on.
C1_DayRunPowersOffOrDims ==
    (BrightnessDone /\ IsDay) =>
        \A id \in args.lights :
            /\ ~before[id].on =>
                  lights[id] = before[id] /\ BriWrites(id) = {}
            /\ (before[id].on /\ before[id].bri <= 1) =>
                  /\ lights[id] = [on |-> FALSE, bri |-> before[id].bri]
                  /\ BriWrites(id) = {Write(id, "on", 0)}
            /\ (before[id].on /\ before[id].bri > 1) =>
                  /\ lights[id] = [on |-> TRUE, bri |-> 0]
                  /\ BriWrites(id) = {Write(id, "bri", 0)}

\* C1's case: a day run that found one controlled light on and bright, which it
\* left on, and another on at the lowest brightness, which it switched off.
C1_Witness ==
    /\ BrightnessDone /\ IsDay
    /\ \E id \in args.lights : before[id].on /\ before[id].bri > 1 /\ lights[id].on
    /\ \E id \in args.lights : before[id].on /\ before[id].bri <= 1 /\ ~lights[id].on

\* C2, as stated: in a run whose local hour h satisfies 0 < h < 7,
\* set_lights_brightness never powers a controlled light on and never raises
\* its brightness, whatever the illumination and only_switchoff.
C2_LocalCurfewNeverPowersOn ==
    \A tz \in UtcOffsets :
        (BrightnessDone /\ 0 < LocalHour(now, tz) /\ LocalHour(now, tz) < 7) =>
            \A id \in args.lights :
                /\ lights[id].on => before[id].on
                /\ lights[id].bri <= before[id].bri
                /\ Write(id, "on", 1) \notin writes

\* C3: in a run in which a watched sensor was pressed less than 60 minutes
\* before now, main goes from the sensor test straight to its end: no solar
\* events are computed, no write is issued, and every light is as the run found it.
C3_RecentPressLeavesLightsAlone ==
    RecentlyPressed =>
        /\ pc \in {"gate", "done"}
        /\ sun = NoSun
        /\ writes = {}
        /\ lights = before

\* C3's case: such a run has ended, at noon, with a controlled light on and
\* bright that a run past the sensor test would have written to.
C3_Witness ==
    /\ pc = "done" /\ RecentlyPressed /\ pressed
    /\ hour(now) = 12
    /\ \E id \in args.lights : lights[id].on /\ lights[id].bri > 1

\* C4: sensor_pressed_not_long_ago returns true exactly when some sensor the
\* bridge reports has a watched name and now - lastupdated < 60 minutes; so it
\* returns false when nothing is watched or no reported sensor is watched.
C4_GateIffWatchedSensorRecent ==
    pc = "sensor_pressed_done" =>
        /\ pressed <=> RecentlyPressed
        /\ args.sensors = {} => ~pressed
        /\ (\A i \in 1..Len(sensors) : sensors[i].name \notin args.sensors) => ~pressed

\* C4's case: the call returned true on the second of two watched sensors, the
\* first having been pressed exactly 60 minutes before.
C4_Witness ==
    /\ pc = "sensor_pressed_done" /\ pressed
    /\ Len(sensors) = 2
    /\ sensors[1].name \in args.sensors /\ now - sensors[1].lastupdated = 60
    /\ sensors[2].name \in args.sensors /\ now - sensors[2].lastupdated = 59

\* C5: with only_switchoff set, set_lights_brightness switches no light on and
\* raises no brightness; the only on and bri writes it issues are those of
\* poweroff_lights (on = False, bri = 0), and only by day or in the curfew hours.
C5_OnlySwitchoffNeverPowersOn ==
    (BrightnessDone /\ args.only_switchoff) =>
        \A id \in Lights :
            /\ lights[id].on => before[id].on
            /\ lights[id].bri <= before[id].bri
            /\ BriWrites(id) \subseteq {Write(id, "on", 0), Write(id, "bri", 0)}
            /\ BriWrites(id) # {} => (IsDay \/ (0 < hour(now) /\ hour(now) < 7))

\* C5's case: an only_switchoff run in the evening, outside the curfew hours and
\* not by day, that found a controlled light off and left every light alone.
C5_Witness ==
    /\ BrightnessDone /\ args.only_switchoff
    /\ ~IsDay /\ hour(now) >= 7
    /\ \E id \in args.lights : ~before[id].on
    /\ lights = before

\* C6, as stated: for ordered solar events and every now <= dawn or now >= dusk,
\* the boundary instants included, illumination is 0.
C6_NightIsZeroBoundariesIncluded ==
    (pc = "illumination_done" /\ (now <= sun.dawn \/ now >= sun.dusk)) =>
        FloatIsInt[illum, 0]

\* C6, amended: for ordered solar events and every now <= dawn or now >= dusk
\* that is not in [sunrise, sunset], illumination is 0 (at now == dawn == sunrise
\* and at now == dusk == sunset, instants of the day, it is 1).
C6_NightIsZero ==
    (/\ pc = "illumination_done"
     /\ now <= sun.dawn \/ now >= sun.dusk
     /\ ~(sun.sunrise <= now /\ now <= sun.sunset)) =>
        FloatIsInt[illum, 0]

\* C6's case: illumination was called at dusk, the end of an evening twilight of
\* non-zero length, and returned 0.
C6_Witness ==
    /\ pc = "illumination_done"
    /\ now = sun.dusk /\ sun.sunset < sun.dusk
    /\ FloatIsInt[illum, 0]

\* C7: for ordered solar events and every now in [sunrise, sunset],
\* illumination is 1.
C7_DayIsOne ==
    (pc = "illumination_done" /\ sun.sunrise <= now /\ now <= sun.sunset) =>
        FloatIsInt[illum, 1]

\* C7's case: illumination was called strictly inside the day, after a morning
\* twilight of non-zero length, and returned 1.
C7_Witness ==
    /\ pc = "illumination_done"
    /\ sun.dawn < sun.sunrise /\ sun.sunrise < now /\ now < sun.sunset
    /\ FloatIsInt[illum, 1]

\* C8: illumination at now is at most illumination at any later instant of
\* [dawn, sunrise], and at least illumination at any later instant of
\* [sunset, dusk]; strictly so when the later instant is another one.
C8_MonotoneOnTwilight ==
    pc = "illumination_done" =>
        \A later \in 0..MaxT :
            /\ (sun.dawn <= now /\ now <= later /\ later <= sun.sunrise) =>
                  /\ FloatLe[illum, illumination(later, sun)]
                  /\ now < later => FloatLt[illum, illumination(later, sun)]
            /\ (sun.sunset <= now /\ now <= later /\ later <= sun.dusk) =>
                  /\ FloatLe[illumination(later, sun), illum]
                  /\ now < later => FloatLt[illumination(later, sun), illum]

\* C8's case: illumination was called strictly inside an evening twilight that
\* holds a later instant strictly inside it too.
C8_Witness ==
    /\ pc = "illumination_done"
    /\ sun.sunset < now /\ now + 1 < sun.dusk
    /\ FloatLt[FloatZero, illum] /\ FloatLt[illum, FloatOfInt[1]]

\* Redshift wrote exactly one colour temperature to light id.
WroteOneCt(id) == Cardinality(CtWritten(id)) = 1

\* The colour temperature redshift wrote to light id.
CtOf(id) == CHOOSE v \in CtWritten(id) : TRUE

\* C9, as stated: redshift writes 154 mireds when illumination == 1, 500 when it
\* is 0, and in between the linear interpolation between the two, (1 - illum) *
\* 500 + illum * 154, to the integer; the value lies in [154, 500] and is never
\* above the value written at an instant of lower or equal illumination.
C9_RedshiftFrom154 ==
    (pc = "done" /\ ~pressed) =>
        \A id \in args.lights :
            LET i == illumination(now, sun)
                v == CtOf(id)
            IN  /\ WroteOneCt(id)
                /\ FloatIsInt[i, 1] => v = 154
                /\ FloatIsInt[i, 0] => v = 500
                /\ FloatLe[FloatOfInt[v], interpolate(i, 500, 154)]
                /\ FloatLt[interpolate(i, 500, 154), FloatOfInt[v + 1]]
                /\ 154 <= v /\ v <= 500
                /\ \A t \in 0..MaxT :
                      FloatLe[illumination(t, sun), i] => v <= redshift_ct(t, sun)

\* The piece of degree_c_to_hue_color that ends at calibration boundary b.
PieceEndingAt(b) ==
    CASE b = -10 -> 0 [] b = 0 -> 1 [] b = 10 -> 2 [] b = 30 -> 3 [] OTHER -> 4

\* C10, as stated: degree_c_to_hue_color(-10) == 46920, (40) == 56100, and at
\* every calibration boundary the piece that ends there and the piece that
\* starts there give the same value.
C10_NoJumpAtAnyBoundary ==
    pc = "thermometer_done" =>
        /\ temp = -10 => color = 46920
        /\ temp = 40 => color = 56100
        /\ temp \in Boundaries => hue_segment(PieceEndingAt(temp), temp) = color

\* C10, amended: degree_c_to_hue_color(-10) == 46920, (40) == 56100, and the
\* two pieces meet at the boundaries -10, 0, 10 and 40; at 30 the piece that
\* ends there gives 0 and the piece that starts there 65280, the two ways of
\* writing red.
C10_NoJumpButAtRed ==
    pc = "thermometer_done" =>
        /\ temp = -10 => color = 46920
        /\ temp = 40 => color = 56100
        /\ temp \in Boundaries \ {30} => hue_segment(PieceEndingAt(temp), temp) = color
        /\ temp = 30 => hue_segment(PieceEndingAt(temp), temp) = 0 /\ color = 65280

\* C10's case: the function was called at the boundary 10, where yellow ends
\* one piece and starts the next.
C10_Witness ==
    /\ pc = "thermometer_done"
    /\ temp = 10 /\ color = 12750
    /\ hue_segment(PieceEndingAt(temp), temp) = color

\* The division x / y was by a zero y: Python raised ZeroDivisionError.
DividedByZero(a) == a.raised

\* C11: for dawn <= sunrise <= sunset <= dusk, illumination(now, sun) never
\* divides by a zero-length twilight window: it returns a value between 0 and
\* 1, and where dawn == sunrise or sunset == dusk the value steps at that
\* instant, 0 on the night side and 1 from the instant on the day side.
C11_NoDivisionByZero ==
    pc = "illumination_done" =>
        /\ ~DividedByZero(illum)
        /\ FloatLe[FloatZero, illum] /\ FloatLe[illum, FloatOfInt[1]]
        /\ (sun.dawn = sun.sunrise /\ now <= sun.sunset) =>
              IF now < sun.dawn THEN FloatIsInt[illum, 0] ELSE FloatIsInt[illum, 1]
        /\ (sun.sunset = sun.dusk /\ now >= sun.sunrise) =>
              IF now > sun.dusk THEN FloatIsInt[illum, 0] ELSE FloatIsInt[illum, 1]

\* C11's case: the function was called at the instant of a zero-length morning
\* twilight, before a zero-length evening twilight, and returned 1.
C11_Witness ==
    /\ pc = "illumination_done"
    /\ sun.dawn = sun.sunrise /\ now = sun.dawn
    /\ sun.sunset = sun.dusk /\ now < sun.sunset
    /\ ~DividedByZero(illum) /\ FloatIsInt[illum, 1]

\* A power-off run has come to its end: set_lights_brightness took one of its
\* poweroff_lights branches, and redshift has written after it.
PowerOffRunDone == pc = "done" /\ ~pressed /\ PowersOff(now, sun)

\* Every write, of any attribute, issued to light id in the run in progress.
WritesTo(id) == {w \in writes : w.light = id}

\* A power-off run reaches set_lights_brightness with light id among the
\* controlled lights, again and again.
ControlledAgainAndAgain(id) == []<>(pc = "brightness" /\ id \in args.lights)

\* What the power-off runs that keep controlling a light make of it: from on
\* with brightness > 1 to on with brightness <= 1, from there to off, and off
\* for good in the end.
EventuallyOff ==
    \A id \in Lights :
        ControlledAgainAndAgain(id) =>
            /\ (lights[id].on /\ lights[id].bri > 1) ~> (lights[id].on /\ lights[id].bri <= 1)
            /\ (lights[id].on /\ lights[id].bri <= 1) ~> ~lights[id].on
            /\ <>[](~lights[id].on)

\* One power-off run's treatment of the controlled lights, as stated: a light
\* that was on with brightness > 1 gets the dim to 0 and stays on, a light
\* that was on with brightness <= 1 gets on = False, a light that was off gets
\* no write at all.
OffLightNeverWritten ==
    PowerOffRunDone =>
        \A id \in args.lights :
            /\ (before[id].on /\ before[id].bri > 1) =>
                  /\ Write(id, "bri", 0) \in writes
                  /\ lights[id].on /\ lights[id].bri <= 1
            /\ (before[id].on /\ before[id].bri <= 1) =>
                  /\ Write(id, "on", 0) \in writes
                  /\ ~lights[id].on
            /\ ~before[id].on =>
                  /\ WritesTo(id) = {}
                  /\ lights[id] = before[id]

\* One power-off run's treatment of the controlled lights, in full: besides
\* the colour temperature that redshift writes to every controlled light, off
\* or on, a light that was on with brightness > 1 gets the one write bri = 0
\* and stays on, a light that was on with brightness <= 1 gets the one write
\* on = False, and a light that was off gets none and stays as it was.
DimThenSwitchOff ==
    PowerOffRunDone =>
        \A id \in args.lights :
            LET ct == Write(id, "ct", redshift_ct(now, sun))
            IN  /\ (before[id].on /\ before[id].bri > 1) =>
                      /\ WritesTo(id) = {Write(id, "bri", 0), ct}
                      /\ lights[id].on /\ lights[id].bri <= 1
                /\ (before[id].on /\ before[id].bri <= 1) =>
                      /\ WritesTo(id) = {Write(id, "on", 0), ct}
                      /\ ~lights[id].on
                /\ ~before[id].on =>
                      /\ WritesTo(id) = {ct}
                      /\ lights[id] = before[id]

\* C12, as stated: across consecutive power-off runs (full day or curfew) with
\* no recent sensor press and no outside change, a controlled light that is on
\* with brightness > 1 is dimmed and stays on, one whose brightness is <= 1 is
\* switched off, and one that is off is never written; hence every controlled
\* light is eventually off.
C12_OffLightNeverWritten == []OffLightNeverWritten /\ EventuallyOff

\* C12, amended: across such runs a controlled light that is on with
\* brightness > 1 is dimmed and stays on, one whose brightness is <= 1 is
\* switched off, and one that is off gets no on or bri write and stays off:
\* the one write it gets is the colour temperature of redshift, which every
\* controlled light gets; hence a light that power-off runs keep controlling
\* goes from brightness > 1 to brightness <= 1 while on, from there to off,
\* and is in the end off for good.
C12_DimsThenSwitchesOff == []DimThenSwitchOff /\ EventuallyOff

\* C12's case: a run in the curfew hours, before dawn, has come to its end
\* having dimmed one controlled light that was on with brightness > 1 and
\* switched off another whose brightness was already <= 1.
C12_Witness ==
    /\ PowerOffRunDone
    /\ ~IsDay
    /\ \E id \in args.lights :
          /\ before[id].on /\ before[id].bri > 1
          /\ lights[id].on /\ Write(id, "bri", 0) \in writes
    /\ \E id \in args.lights :
          /\ before[id].on /\ before[id].bri <= 1
          /\ ~lights[id].on /\ Write(id, "on", 0) \in writes

====
